---- MODULE Spec2Model ----
(***************************************************************************)
(* Model of the MCP tool handlers of S1MCPClient:                          *)
(*   src/S1MCPClient/src/tools/load_manager_tools.py                       *)
(*       handle_s1_list_saves, handle_s1_load_save                         *)
(*   src/S1MCPClient/src/tools/log_tools.py                                *)
(*       handle_s1_capture_logs                                            *)
(*                                                                         *)
(* A handler runs up to its single tcp_client.call_with_retry call, the    *)
(* external client answers with a response or raises, and the handler      *)
(* formats the answer into a list of TextContent blocks.                   *)
(*                                                                         *)
(* Python values are tagged tuples:                                        *)
(*   <<"none">>  <<"bool", b>>  <<"int", n>>  <<"str", s>>                 *)
(*   <<"list", <<v1, ..., vn>> >>                                          *)
(*   <<"dict", << <<k1, v1>>, ..., <<kn, vn>> >> >>  (insertion order)     *)
(*   <<"obj", code, message>>   (the error object of a response)           *)
(* Text is built as real strings; the non-ASCII glyphs of the source are   *)
(* written as <U+XXXX> because the module text is ASCII.                   *)
(***************************************************************************)
EXTENDS Integers, Sequences, FiniteSets, TLC

VARIABLES pc, tool, arguments, calls, outcome, output, log, exc

vars == <<pc, tool, arguments, calls, outcome, output, log, exc>>

-----------------------------------------------------------------------------
(* Bounds of the explored inputs *)

MaxSaves == 2
MaxCount == 2
MaxSlot == 1
MaxLines == 2

-----------------------------------------------------------------------------
(* Python values *)

None == <<"none">>
PyBool(b) == <<"bool", b>>
PyInt(n) == <<"int", n>>
PyStrVal(s) == <<"str", s>>
PyList(items) == <<"list", items>>
PyDict(pairs) == <<"dict", pairs>>
EmptyDict == PyDict(<<>>)

IsNone(v) == v[1] = "none"
IsDict(v) == v[1] = "dict"

\* type(v).__name__
TypeName(v) ==
    CASE v[1] = "none" -> "NoneType"
      [] v[1] = "bool" -> "bool"
      [] v[1] = "int" -> "int"
      [] v[1] = "str" -> "str"
      [] v[1] = "list" -> "list"
      [] v[1] = "dict" -> "dict"
      [] OTHER -> "ErrorResponse"

\* bool(v): the truth value Python's `if v:` tests
Truthy(v) ==
    CASE v[1] = "none" -> FALSE
      [] v[1] = "bool" -> v[2]
      [] v[1] = "int" -> v[2] # 0
      [] v[1] = "str" -> v[2] # ""
      [] v[1] = "list" -> Len(v[2]) > 0
      [] v[1] = "dict" -> Len(v[2]) > 0
      [] OTHER -> TRUE

\* key in d
DictHas(d, k) == \E i \in 1..Len(d[2]) : d[2][i][1] = k

\* d.get(k, default)
DictGet(d, k, default) ==
    IF DictHas(d, k)
    THEN d[2][CHOOSE i \in 1..Len(d[2]) : d[2][i][1] = k][2]
    ELSE default

\* d[k] = v on a dict that does not hold k yet
DictSet(d, k, v) == PyDict(Append(d[2], <<k, v>>))

RECURSIVE JoinStr(_, _)
\* sep.join(strs)
JoinStr(strs, sep) ==
    IF Len(strs) = 0 THEN ""
    ELSE IF Len(strs) = 1 THEN strs[1]
    ELSE strs[1] \o sep \o JoinStr(Tail(strs), sep)

RECURSIVE PyRepr(_)
\* repr(v), as str() of a container renders its members
PyRepr(v) ==
    CASE v[1] = "none" -> "None"
      [] v[1] = "bool" -> IF v[2] THEN "True" ELSE "False"
      [] v[1] = "int" -> ToString(v[2])
      [] v[1] = "str" -> "'" \o v[2] \o "'"
      [] v[1] = "list" ->
            "[" \o JoinStr([i \in 1..Len(v[2]) |-> PyRepr(v[2][i])], ", ") \o "]"
      [] v[1] = "dict" ->
            "{" \o JoinStr([i \in 1..Len(v[2]) |->
                      "'" \o v[2][i][1] \o "': " \o PyRepr(v[2][i][2])], ", ") \o "}"
      [] OTHER -> "<ErrorResponse>"

\* str(v), which is also what an f-string field {v} renders
PyStr(v) == IF v[1] = "str" THEN v[2] ELSE PyRepr(v)

RECURSIVE Spaces(_)
Spaces(n) == IF n = 0 THEN "" ELSE " " \o Spaces(n - 1)

RECURSIVE JsonDumpsAt(_, _)
\* json.dumps(v, indent=2) of a value nested at indentation ind
JsonDumpsAt(v, ind) ==
    CASE v[1] = "none" -> "null"
      [] v[1] = "bool" -> IF v[2] THEN "true" ELSE "false"
      [] v[1] = "int" -> ToString(v[2])
      [] v[1] = "str" -> "\"" \o v[2] \o "\""
      [] v[1] = "list" ->
            IF Len(v[2]) = 0 THEN "[]"
            ELSE "[\n"
                 \o JoinStr([i \in 1..Len(v[2]) |->
                       Spaces(ind + 2) \o JsonDumpsAt(v[2][i], ind + 2)], ",\n")
                 \o "\n" \o Spaces(ind) \o "]"
      [] v[1] = "dict" ->
            IF Len(v[2]) = 0 THEN "{}"
            ELSE "{\n"
                 \o JoinStr([i \in 1..Len(v[2]) |->
                       Spaces(ind + 2) \o "\"" \o v[2][i][1] \o "\": "
                       \o JsonDumpsAt(v[2][i][2], ind + 2)], ",\n")
                 \o "\n" \o Spaces(ind) \o "}"

JsonDumps(v) == JsonDumpsAt(v, 0)

-----------------------------------------------------------------------------
(* Exceptions and handler completions *)

\* The classes that derive from Exception among those that occur here
ExceptionClasses == {"ConnectionError", "TimeoutError", "TypeError", "AttributeError"}

Raise(cls, msg) == <<"raise", cls, msg>>
Return(text) == <<"return", text>>
IsRaise(c) == c[1] = "raise"

\* TextContent(type="text", text=text)
TextContent(text) == [type |-> "text", text |-> text]

\* Mutant: the clause is `except ConnectionError as e`
CatchesConnectionErrorOnly(cls) == cls = "ConnectionError"

\* `except Exception as e`
CatchesException(cls) == cls \in ExceptionClasses

\* f"Error: {response.error.message} (code: {response.error.code})"
RpcErrorText(error) ==
    "Error: " \o PyStr(error[3]) \o " (code: " \o PyStr(error[2]) \o ")"

-----------------------------------------------------------------------------
(* Glyphs of the source's string literals *)

CheckMark == "<U+2713>"
WarningSign == "<U+26A0><U+FE0F>"
BarChart == "<U+1F4CA>"
Bullet == "<U+2022>"
Magnifier == "<U+1F50D>"
Memo == "<U+1F4DD>"

-----------------------------------------------------------------------------
(* handle_s1_list_saves *)

\* tcp_client.call_with_retry("list_saves", {})
ListSavesRequest == [method |-> "list_saves", params |-> EmptyDict]

\* Mutant: the summary is written for every dict, with or without "saves"
ListSavesFormatEveryDict(result) ==
    LET result_text == JsonDumps(result)
    IN  IF IsDict(result)
        THEN LET save_count == DictGet(result, "count", PyInt(0))
             IN  "Found " \o PyStr(save_count) \o " save game(s):\n\n" \o result_text
        ELSE result_text

\* The success branch: the JSON dump, with the count summary before it when
\* the result is a dict holding "saves"
ListSavesFormat(result) ==
    LET result_text == JsonDumps(result)
    IN  IF IsDict(result) /\ DictHas(result, "saves")
        THEN LET save_count == DictGet(result, "count", PyInt(0))
             IN  "Found " \o PyStr(save_count) \o " save game(s):\n\n" \o result_text
        ELSE result_text

\* Mutant: the error branch tests response.error.code instead of response.error
ListSavesTryTestsCode(oc) ==
    IF IsRaise(oc) THEN oc
    ELSE LET response == oc[2]
         IN  IF Truthy(response.error) /\ Truthy(response.error[2])
             THEN Return(RpcErrorText(response.error))
             ELSE Return(ListSavesFormat(response.result))

\* The try block from the call's outcome on
ListSavesTry(oc) ==
    IF IsRaise(oc) THEN oc
    ELSE LET response == oc[2]
         IN  IF Truthy(response.error)
             THEN Return(RpcErrorText(response.error))
             ELSE Return(ListSavesFormat(response.result))

-----------------------------------------------------------------------------
(* handle_s1_load_save *)

\* Mutant: slot_index = arguments.get("slot_index", 0)
LoadSaveSlotIndexDefaultZero(args) == DictGet(args, "slot_index", PyInt(0))

\* slot_index = arguments.get("slot_index")
LoadSaveSlotIndex(args) == DictGet(args, "slot_index", None)

\* if slot_index is None
LoadSaveMissingSlot(slot_index) == IsNone(slot_index)

LoadSaveMissingText == "Error: slot_index parameter is required"

\* Mutant: the method name of the neighbouring handler
LoadSaveRequestWrongMethod(slot_index) ==
    [method |-> "list_saves", params |-> PyDict(<< <<"slot_index", slot_index>> >>)]

\* tcp_client.call_with_retry("load_save", {"slot_index": slot_index})
LoadSaveRequest(slot_index) ==
    [method |-> "load_save", params |-> PyDict(<< <<"slot_index", slot_index>> >>)]

\* Mutant: the mark follows the success field
LoadSaveStatusTextBySuccess(success, message, returned_to_menu) ==
    LET status_text == (IF Truthy(success) THEN CheckMark ELSE "<U+2717>")
                       \o " " \o PyStr(message)
    IN  IF Truthy(returned_to_menu)
        THEN status_text \o "\n  Note: Game was returned to menu before loading the save."
        ELSE status_text

\* status_text from the three fields read off the result
LoadSaveStatusText(success, message, returned_to_menu) ==
    LET status_text == CheckMark \o " " \o PyStr(message)
    IN  IF Truthy(returned_to_menu)
        THEN status_text \o "\n  Note: Game was returned to menu before loading the save."
        ELSE status_text

\* Mutant: returned_to_menu defaults to True
LoadSaveFormatMenuDefaultTrue(result) ==
    IF IsDict(result)
    THEN LoadSaveStatusText(DictGet(result, "success", PyBool(FALSE)),
                            DictGet(result, "message", PyStrVal("")),
                            DictGet(result, "returned_to_menu", PyBool(TRUE)))
    ELSE JsonDumps(result)

\* The success branch
LoadSaveFormat(result) ==
    IF IsDict(result)
    THEN LoadSaveStatusText(DictGet(result, "success", PyBool(FALSE)),
                            DictGet(result, "message", PyStrVal("")),
                            DictGet(result, "returned_to_menu", PyBool(FALSE)))
    ELSE JsonDumps(result)

\* The try block from the call's outcome on
LoadSaveTry(oc) ==
    IF IsRaise(oc) THEN oc
    ELSE LET response == oc[2]
         IN  IF Truthy(response.error)
             THEN Return(RpcErrorText(response.error))
             ELSE Return(LoadSaveFormat(response.result))

-----------------------------------------------------------------------------
(* handle_s1_capture_logs *)

\* The parameter names copied from the arguments, in the order the code tests them
CaptureLogsKeys ==
    <<"last_n_lines", "first_n_lines", "keyword", "from_timestamp",
      "to_timestamp", "include_pattern", "exclude_pattern">>

\* Mutant: if arguments.get(key): params[key] = arguments[key]
CopyIfTruthy(params, args, key) ==
    IF Truthy(DictGet(args, key, None))
    THEN DictSet(params, key, DictGet(args, key, None))
    ELSE params

\* if key in arguments: params[key] = arguments[key]
CopyIfPresent(params, args, key) ==
    IF DictHas(args, key) THEN DictSet(params, key, DictGet(args, key, None)) ELSE params

RECURSIVE CopyKeys(_, _, _)
CopyKeys(params, args, keys) ==
    IF Len(keys) = 0 THEN params
    ELSE CopyKeys(CopyIfPresent(params, args, Head(keys)), args, Tail(keys))

\* params = {} followed by the seven conditional copies
CaptureLogsParams(args) == CopyKeys(EmptyDict, args, CaptureLogsKeys)

\* logger.debug(f"Capturing logs with params: {params}")
CaptureLogsDebugEntry(params) ==
    <<"debug", "Capturing logs with params: " \o PyStr(params)>>

\* tcp_client.call_with_retry("capture_logs", params)
CaptureLogsRequest(params) == [method |-> "capture_logs", params |-> params]

\* len(v) is defined
HasLen(v) == v[1] \in {"str", "list", "dict"}

\* len(v)
PyLen(v) == Len(v[2])

\* `for x in v` is defined
IsIterable(v) == v[1] \in {"str", "list", "dict"}

\* The members `for x in v` yields: the items of a list, the keys of a dict,
\* the characters of a str
PyIter(v) ==
    CASE v[1] = "list" -> v[2]
      [] v[1] = "dict" -> [i \in 1..Len(v[2]) |-> PyStrVal(v[2][i][1])]
      [] v[1] = "str" -> [i \in 1..Len(v[2]) |-> PyStrVal(SubSeq(v[2], i, i))]

\* Mutant: the timestamp bracket is written whether or not there is a timestamp
CaptureLogsLineTextAlwaysStamped(line_obj) ==
    LET line_num == DictGet(line_obj, "line_number", PyStrVal("?"))
        timestamp == DictGet(line_obj, "timestamp", PyStrVal(""))
        content == DictGet(line_obj, "content", PyStrVal(""))
    IN  "[Line " \o PyStr(line_num) \o "] [" \o PyStr(timestamp) \o "] " \o PyStr(content)

\* One rendered log line
CaptureLogsLineText(line_obj) ==
    LET line_num == DictGet(line_obj, "line_number", PyStrVal("?"))
        timestamp == DictGet(line_obj, "timestamp", PyStrVal(""))
        content == DictGet(line_obj, "content", PyStrVal(""))
    IN  IF Truthy(timestamp)
        THEN "[Line " \o PyStr(line_num) \o "] [" \o PyStr(timestamp) \o "] " \o PyStr(content)
        ELSE "[Line " \o PyStr(line_num) \o "] " \o PyStr(content)

CaptureLogsNoLinesNotice == "\n(No log lines matched the filters)"
CaptureLogsLinesHeader == "\n" \o Memo \o " Log Lines:\n"
CaptureLogsFiltersHeader == "\n" \o Magnifier \o " Filters Applied:"

\* f"  <bullet> Lines returned: {len(lines)}"
CaptureLogsReturnedLine(lines) ==
    "  " \o Bullet \o " Lines returned: " \o ToString(PyLen(lines))

\* The report of a dict result: the joined output_lines, or the exception the
\* first failing statement raises
CaptureLogsReport(result) ==
    LET lines == DictGet(result, "lines", PyList(<<>>))
        total_lines == DictGet(result, "total_lines_in_file", PyInt(0))
        filtered_count == DictGet(result, "filtered_count", PyInt(0))
        filters_applied == DictGet(result, "filters_applied", PyList(<<>>))
        warning == DictGet(result, "warning", None)
        warn_part ==
            IF Truthy(warning)
            THEN <<WarningSign \o " Warning: " \o PyStr(warning) \o "\n">>
            ELSE <<>>
        summary ==
            <<BarChart \o " Log Summary:",
              "  " \o Bullet \o " Total lines in file: " \o PyStr(total_lines),
              "  " \o Bullet \o " Lines after filtering: " \o PyStr(filtered_count)>>
    IN  IF ~HasLen(lines)
        THEN Raise("TypeError", "object of type '" \o TypeName(lines) \o "' has no len()")
        ELSE IF Truthy(filters_applied) /\ ~IsIterable(filters_applied)
        THEN Raise("TypeError", "'" \o TypeName(filters_applied) \o "' object is not iterable")
        ELSE
          LET filters == PyIter(filters_applied)
              filter_part ==
                  IF Truthy(filters_applied)
                  THEN <<CaptureLogsFiltersHeader>>
                       \o [i \in 1..Len(filters) |-> "  " \o Bullet \o " " \o PyStr(filters[i])]
                  ELSE <<>>
              objs == PyIter(lines)
          IN  IF Truthy(lines)
              THEN IF \E i \in 1..Len(objs) : ~IsDict(objs[i])
                   THEN LET bad == objs[CHOOSE i \in 1..Len(objs) :
                                          /\ ~IsDict(objs[i])
                                          /\ \A j \in 1..(i - 1) : IsDict(objs[j])]
                        IN  Raise("AttributeError",
                                  "'" \o TypeName(bad) \o "' object has no attribute 'get'")
                   ELSE Return(JoinStr(
                            warn_part \o summary \o <<CaptureLogsReturnedLine(lines)>>
                            \o filter_part \o <<CaptureLogsLinesHeader>>
                            \o [i \in 1..Len(objs) |-> CaptureLogsLineText(objs[i])],
                            "\n"))
              ELSE Return(JoinStr(
                       warn_part \o summary \o <<CaptureLogsReturnedLine(lines)>>
                       \o filter_part \o <<CaptureLogsNoLinesNotice>>,
                       "\n"))

\* The success branch
CaptureLogsFormat(result) ==
    IF ~IsDict(result) THEN Return(PyStr(result)) ELSE CaptureLogsReport(result)

\* The try block from the call's outcome on
CaptureLogsTry(oc) ==
    IF IsRaise(oc) THEN oc
    ELSE LET response == oc[2]
         IN  IF Truthy(response.error)
             THEN Return(RpcErrorText(response.error))
             ELSE CaptureLogsFormat(response.result)

-----------------------------------------------------------------------------
(* The except clause and the handler's exit *)

\* logger.error(f"Error in {name}: {e}")
ErrorLogEntries(name, msg) == << <<"error", "Error in " \o name \o ": " \o msg>> >>

\* return [TextContent(type="text", text=f"Error: {str(e)}")]
ExceptionText(msg) == "Error: " \o msg

\* How a handler leaves its try/except, given the completion of its try block:
\* a returned text is returned in one TextContent; a raised exception that
\* `except Exception` catches is logged and turned into the error text; another
\* exception leaves the handler
HandlerExit(name, c) ==
    IF IsRaise(c)
    THEN IF CatchesException(c[2])
         THEN [pc |-> "returned", output |-> <<TextContent(ExceptionText(c[3]))>>,
               logged |-> ErrorLogEntries(name, c[3]), exc |-> None]
         ELSE [pc |-> "raised", output |-> <<>>, logged |-> <<>>, exc |-> c]
    ELSE [pc |-> "returned", output |-> <<TextContent(c[2])>>,
          logged |-> <<>>, exc |-> None]

-----------------------------------------------------------------------------
(* Inputs: argument mappings and outcomes of call_with_retry *)

Absent == <<"absent">>

\* The dict of the <<key, value>> pairs whose value is not Absent
DictOf(pairs) == PyDict(SelectSeq(pairs, LAMBDA kv : kv[2] # Absent))

SeqsUpTo(S, n) == UNION {[1..k -> S] : k \in 0..n}

ErrorCodes == {0, 404, -32000}
ErrorMessages == {"", "Game not running"}
ErrorObjects == {<<"obj", PyInt(c), PyStrVal(m)>> : c \in ErrorCodes, m \in ErrorMessages}

\* Exceptions call_with_retry raises
RpcRaises ==
    {Raise(cls, msg) : cls \in {"ConnectionError", "TimeoutError"},
                       msg \in {"", "Connection refused"}}

OkOutcomes(results) == {<<"response", [result |-> r, error |-> None]>> : r \in results}
ErrorOutcomes(results) ==
    {<<"response", [result |-> r, error |-> e]>> : r \in results, e \in ErrorObjects}

\* Results that are no dict
PlainResults ==
    {None, PyStrVal(""), PyStrVal("saves"), PyInt(0), PyBool(TRUE),
     PyList(<<PyStrVal("saves"), PyStrVal("lines")>>)}

SaveEntry(i) == PyDict(<< <<"slot_index", PyInt(i)>>, <<"name", PyStrVal("Save " \o ToString(i))>> >>)

ListSavesResults ==
    PlainResults \cup
    {DictOf(<< <<"saves", s>>, <<"count", c>> >>) :
        s \in {Absent, None} \cup {PyList([i \in 1..n |-> SaveEntry(i - 1)]) : n \in 0..MaxSaves},
        c \in {Absent, None} \cup {PyInt(n) : n \in 0..MaxCount}}

ListSavesOutcomes ==
    OkOutcomes(ListSavesResults) \cup RpcRaises
    \cup ErrorOutcomes({None, DictOf(<< <<"saves", PyList(<<>>)>>, <<"count", PyInt(0)>> >>)})

ListSavesArguments == {EmptyDict, PyDict(<< <<"verbose", PyBool(TRUE)>> >>)}

LoadSaveResults ==
    PlainResults \cup
    {DictOf(<< <<"success", s>>, <<"message", m>>, <<"returned_to_menu", r>> >>) :
        s \in {Absent, PyBool(TRUE), PyBool(FALSE)},
        m \in {Absent, PyStrVal(""), PyStrVal("Loaded slot " \o ToString(MaxSlot))},
        r \in {Absent, PyBool(TRUE), PyBool(FALSE)}}

LoadSaveOutcomes ==
    OkOutcomes(LoadSaveResults) \cup RpcRaises
    \cup ErrorOutcomes({None, DictOf(<< <<"success", PyBool(TRUE)>>,
                                        <<"message", PyStrVal("Loaded")>> >>)})

LoadSaveArguments ==
    {DictOf(<< <<"verbose", v>>, <<"slot_index", s>> >>) :
        v \in {Absent, PyBool(TRUE)},
        s \in {Absent, None} \cup {PyInt(n) : n \in 0..MaxSlot}}

\* Entries of "lines": well-formed line objects, and one that is no mapping
LineObjects ==
    {DictOf(<< <<"line_number", PyInt(1)>>, <<"timestamp", PyStrVal("12:30:45")>>,
               <<"content", PyStrVal("[Mod] started")>> >>),
     DictOf(<< <<"line_number", PyInt(2)>>, <<"timestamp", PyStrVal("")>>,
               <<"content", PyStrVal("no stamp")>> >>),
     EmptyDict}

LineEntries == LineObjects \cup {PyStrVal("raw line")}

LinesValues ==
    {Absent, None, PyInt(5), PyStrVal(""), PyStrVal("ab")}
    \cup {PyList(l) : l \in SeqsUpTo(LineEntries, MaxLines)}

\* The other fields of a capture_logs result, as <<total_lines_in_file,
\* filtered_count, filters_applied, warning>>
ReportFields ==
    {<<Absent, Absent, Absent, Absent>>,
     <<PyInt(120), PyInt(7),
       PyList(<<PyStrVal("keyword: error"), PyStrVal("last 50 lines")>>),
       PyStrVal("Log file truncated")>>,
     <<PyInt(120), Absent, PyList(<<>>), PyStrVal("")>>,
     <<Absent, PyInt(0), PyInt(5), Absent>>}

CaptureLogsResults ==
    PlainResults \cup
    {DictOf(<< <<"lines", l>>, <<"total_lines_in_file", f[1]>>,
               <<"filtered_count", f[2]>>, <<"filters_applied", f[3]>>,
               <<"warning", f[4]>> >>) : l \in LinesValues, f \in ReportFields}

CaptureLogsOutcomes ==
    OkOutcomes(CaptureLogsResults) \cup RpcRaises
    \cup ErrorOutcomes({None, DictOf(<< <<"lines", PyList(<<EmptyDict>>)>> >>)})

\* Argument values of capture_logs, in two variants, under the names a caller
\* may pass: the seven parameters and one name the tool does not know, given
\* in an order that is not the order the code tests them in
CaptureLogsArgumentPairs(variant) ==
    IF variant = 1
    THEN << <<"verbose", PyBool(TRUE)>>, <<"exclude_pattern", PyStrVal("DEBUG")>>,
            <<"include_pattern", PyStrVal("Exception")>>,
            <<"to_timestamp", PyStrVal("12:35:00.999")>>,
            <<"from_timestamp", PyStrVal("12:30:45")>>, <<"keyword", PyStrVal("error")>>,
            <<"first_n_lines", PyInt(10)>>, <<"last_n_lines", PyInt(50)>> >>
    ELSE << <<"verbose", PyBool(FALSE)>>, <<"exclude_pattern", PyStrVal("")>>,
            <<"include_pattern", None>>, <<"to_timestamp", PyStrVal("")>>,
            <<"from_timestamp", PyInt(0)>>, <<"keyword", PyStrVal("")>>,
            <<"first_n_lines", PyInt(0)>>, <<"last_n_lines", None>> >>

CaptureLogsArguments ==
    {PyDict(SelectSeq(CaptureLogsArgumentPairs(variant), LAMBDA kv : kv[1] \in ks)) :
        variant \in {1, 2},
        ks \in SUBSET {"verbose", "exclude_pattern", "include_pattern", "to_timestamp",
                       "from_timestamp", "keyword", "first_n_lines", "last_n_lines"}}

NoOutcome == <<"pending">>

-----------------------------------------------------------------------------
(* The state machine *)

Init ==
    /\ pc = "idle"
    /\ tool = ""
    /\ arguments = EmptyDict
    /\ calls = <<>>
    /\ outcome = NoOutcome
    /\ output = <<>>
    /\ log = <<>>
    /\ exc = None

\* The handler's exit applied to the state
Exit(x) ==
    /\ pc' = x.pc
    /\ output' = x.output
    /\ log' = log \o x.logged
    /\ exc' = x.exc

\* handle_s1_list_saves up to its call_with_retry
HandleListSavesCall(args) ==
    /\ pc = "idle"
    /\ tool' = "s1_list_saves"
    /\ arguments' = args
    /\ calls' = Append(calls, ListSavesRequest)
    /\ pc' = "in_rpc"
    /\ UNCHANGED <<outcome, output, log, exc>>

\* handle_s1_list_saves from the outcome of call_with_retry to its exit
HandleListSavesResume(oc) ==
    /\ pc = "in_rpc"
    /\ tool = "s1_list_saves"
    /\ outcome' = oc
    /\ Exit(HandlerExit("s1_list_saves", ListSavesTry(oc)))
    /\ UNCHANGED <<tool, arguments, calls>>

\* handle_s1_load_save up to its call_with_retry, or to its return when
\* slot_index is missing
HandleLoadSaveCall(args) ==
    /\ pc = "idle"
    /\ tool' = "s1_load_save"
    /\ arguments' = args
    /\ LET slot_index == LoadSaveSlotIndex(args)
       IN  IF LoadSaveMissingSlot(slot_index)
           THEN /\ Exit(HandlerExit("s1_load_save", Return(LoadSaveMissingText)))
                /\ UNCHANGED <<calls, outcome>>
           ELSE /\ calls' = Append(calls, LoadSaveRequest(slot_index))
                /\ pc' = "in_rpc"
                /\ UNCHANGED <<outcome, output, log, exc>>

\* handle_s1_load_save from the outcome of call_with_retry to its exit
HandleLoadSaveResume(oc) ==
    /\ pc = "in_rpc"
    /\ tool = "s1_load_save"
    /\ outcome' = oc
    /\ Exit(HandlerExit("s1_load_save", LoadSaveTry(oc)))
    /\ UNCHANGED <<tool, arguments, calls>>

\* handle_s1_capture_logs up to its call_with_retry
HandleCaptureLogsCall(args) ==
    /\ pc = "idle"
    /\ tool' = "s1_capture_logs"
    /\ arguments' = args
    /\ LET params == CaptureLogsParams(args)
       IN  /\ log' = Append(log, CaptureLogsDebugEntry(params))
           /\ calls' = Append(calls, CaptureLogsRequest(params))
    /\ pc' = "in_rpc"
    /\ UNCHANGED <<outcome, output, exc>>

\* handle_s1_capture_logs from the outcome of call_with_retry to its exit
HandleCaptureLogsResume(oc) ==
    /\ pc = "in_rpc"
    /\ tool = "s1_capture_logs"
    /\ outcome' = oc
    /\ Exit(HandlerExit("s1_capture_logs", CaptureLogsTry(oc)))
    /\ UNCHANGED <<tool, arguments, calls>>

\* The host takes the handler's answer; the next invocation starts afresh with
\* a fresh client stub and log
HostCollect ==
    /\ pc \in {"returned", "raised"}
    /\ pc' = "idle"
    /\ tool' = ""
    /\ arguments' = EmptyDict
    /\ calls' = <<>>
    /\ outcome' = NoOutcome
    /\ output' = <<>>
    /\ log' = <<>>
    /\ exc' = None

Next ==
    \/ \E args \in ListSavesArguments : HandleListSavesCall(args)
    \/ \E oc \in ListSavesOutcomes : HandleListSavesResume(oc)
    \/ \E args \in LoadSaveArguments : HandleLoadSaveCall(args)
    \/ \E oc \in LoadSaveOutcomes : HandleLoadSaveResume(oc)
    \/ \E args \in CaptureLogsArguments : HandleCaptureLogsCall(args)
    \/ \E oc \in CaptureLogsOutcomes : HandleCaptureLogsResume(oc)
    \/ HostCollect

Spec == Init /\ [][Next]_vars

-----------------------------------------------------------------------------
(* Vocabulary of the properties *)

StartsWith(s, prefix) == Len(s) >= Len(prefix) /\ SubSeq(s, 1, Len(prefix)) = prefix
EndsWith(s, suffix) ==
    Len(s) >= Len(suffix) /\ SubSeq(s, Len(s) - Len(suffix) + 1, Len(s)) = suffix
Contains(s, sub) ==
    \E i \in 1..(Len(s) - Len(sub) + 1) : SubSeq(s, i, i + Len(sub) - 1) = sub

\* The invocation has ended, by a return or by an exception leaving the handler
Ended == pc \in {"returned", "raised"}

\* call_with_retry answered with a response
Answered == outcome[1] = "response"
\* ... whose error is populated
AnsweredError == Answered /\ outcome[2].error # None
\* ... whose error is absent
AnsweredOk == Answered /\ outcome[2].error = None

\* call_with_retry raised
CallRaised == outcome[1] = "raise"

OneText == Len(output) = 1 /\ output[1].type = "text"

ErrorLogCount == Cardinality({i \in 1..Len(log) : log[i][1] = "error"})

-----------------------------------------------------------------------------
(* C1 *)

\* C1: an invocation of handle_s1_load_save whose arguments hold no slot_index
\* returns exactly one text block with the text 'Error: slot_index parameter
\* is required', and call_with_retry is never invoked in it.
C1_MissingSlotIndex ==
    (pc # "idle" /\ tool = "s1_load_save" /\ ~DictHas(arguments, "slot_index"))
    => /\ pc = "returned"
       /\ output = <<[type |-> "text", text |-> "Error: slot_index parameter is required"]>>
       /\ calls = <<>>

C1_Witness ==
    /\ pc = "returned"
    /\ tool = "s1_load_save"
    /\ ~DictHas(arguments, "slot_index")
    /\ DictHas(arguments, "verbose")
    /\ calls = <<>>

-----------------------------------------------------------------------------
(* C2 *)

\* C2: when the response's error is populated, whatever its code, its message
\* and the result beside it, each handler returns the one text
\* 'Error: {message} (code: {code})': the substring is there and nothing of the
\* result is rendered around it.
C2_RemoteErrorText ==
    (Ended /\ AnsweredError)
    => /\ pc = "returned"
       /\ OneText
       /\ LET error == outcome[2].error
              expected == "Error: " \o error[3][2] \o " (code: " \o ToString(error[2][2]) \o ")"
          IN  /\ Contains(output[1].text, expected)
              /\ output[1].text = expected

C2_Witness ==
    /\ pc = "returned"
    /\ tool = "s1_list_saves"
    /\ AnsweredError
    /\ outcome[2].error[2] = PyInt(0)
    /\ outcome[2].error[3] = PyStrVal("")
    /\ outcome[2].result # None

-----------------------------------------------------------------------------
(* C3 *)

\* C3: when call_with_retry raises, the handler returns one text block whose
\* text starts with 'Error: ', logger.error was invoked exactly once in the
\* invocation, and no exception leaves the handler.
C3_RaiseIsCaught ==
    (Ended /\ CallRaised)
    => /\ pc = "returned"
       /\ exc = None
       /\ OneText
       /\ StartsWith(output[1].text, "Error: ")
       /\ ErrorLogCount = 1

C3_Witness ==
    /\ pc = "returned"
    /\ tool = "s1_capture_logs"
    /\ outcome = Raise("TimeoutError", "Connection refused")
    /\ output[1].text = "Error: Connection refused"

-----------------------------------------------------------------------------
(* C4 *)

\* C4: every invocation, whatever the arguments and the outcome of the call,
\* ends by returning a non-empty sequence of text blocks that carries at least
\* one line of text, and never by an exception leaving the handler.
C4_AlwaysSomeText ==
    Ended
    => /\ pc = "returned"
       /\ Len(output) >= 1
       /\ \A i \in 1..Len(output) : output[i].type = "text"
       /\ \E i \in 1..Len(output) : output[i].text # ""

-----------------------------------------------------------------------------
(* C5 *)

C5_Forwarded ==
    {"last_n_lines", "first_n_lines", "keyword", "from_timestamp", "to_timestamp",
     "include_pattern", "exclude_pattern"}

C5_Names == C5_Forwarded \cup {"verbose", "slot_index"}

\* C5: the payload handle_s1_capture_logs passes to
\* call_with_retry('capture_logs', payload) holds exactly the arguments' keys
\* that are among the seven parameter names, each once and with the caller's
\* value; no absent key is added, no other key is sent, and an empty argument
\* mapping gives the empty payload.
C5_SparsePayload ==
    (pc # "idle" /\ tool = "s1_capture_logs")
    => /\ Len(calls) = 1
       /\ calls[1].method = "capture_logs"
       /\ LET payload == calls[1].params
          IN  /\ IsDict(payload)
              /\ \A i, j \in 1..Len(payload[2]) :
                    payload[2][i][1] = payload[2][j][1] => i = j
              /\ \A i \in 1..Len(payload[2]) : payload[2][i][1] \in C5_Forwarded
              /\ \A k \in C5_Names :
                    DictHas(payload, k) <=> (k \in C5_Forwarded /\ DictHas(arguments, k))
              /\ \A k \in C5_Forwarded :
                    DictHas(arguments, k)
                    => DictGet(payload, k, Absent) = DictGet(arguments, k, Absent)
              /\ (arguments = EmptyDict => payload = EmptyDict)

C5_Witness ==
    /\ pc = "in_rpc"
    /\ tool = "s1_capture_logs"
    /\ DictHas(arguments, "verbose")
    /\ DictGet(arguments, "keyword", Absent) = PyStrVal("")
    /\ DictGet(arguments, "last_n_lines", Absent) = None
    /\ ~DictHas(arguments, "first_n_lines")
    /\ Len(calls[1].params[2]) = 2

-----------------------------------------------------------------------------
(* C6 *)

C6_Note == "\n  Note: Game was returned to menu before loading the save."

\* C6: for load_save with slot_index supplied and an error-free response whose
\* result is a mapping, the text is the check mark, a space and the message
\* (the empty string when the result has none), followed by the note that the
\* game was returned to menu exactly when returned_to_menu is true; with
\* returned_to_menu false or absent there is no note.
C6_LoadSaveText ==
    (pc = "returned" /\ tool = "s1_load_save" /\ AnsweredOk /\ IsDict(outcome[2].result))
    => LET result == outcome[2].result
           message == IF DictHas(result, "message")
                      THEN DictGet(result, "message", Absent)[2] ELSE ""
           noted == /\ DictHas(result, "returned_to_menu")
                    /\ DictGet(result, "returned_to_menu", Absent) = PyBool(TRUE)
       IN  /\ OneText
           /\ output[1].text = CheckMark \o " " \o message \o (IF noted THEN C6_Note ELSE "")
           /\ noted <=> Contains(output[1].text, "returned to menu")

C6_Witness ==
    /\ pc = "returned"
    /\ tool = "s1_load_save"
    /\ AnsweredOk
    /\ IsDict(outcome[2].result)
    /\ ~DictHas(outcome[2].result, "message")
    /\ DictGet(outcome[2].result, "returned_to_menu", Absent) = PyBool(TRUE)
    /\ output[1].text = CheckMark \o " " \o C6_Note

-----------------------------------------------------------------------------
(* C7 *)

\* C7: for list_saves with an error-free response, a result that is a mapping
\* with a 'saves' entry gives 'Found {count} save game(s):' followed by the
\* JSON rendering of the whole result, count being the result's 'count' field,
\* or 0 without one, however many entries 'saves' holds; any other result
\* gives the JSON rendering alone.
C7_ListSavesText ==
    (pc = "returned" /\ tool = "s1_list_saves" /\ AnsweredOk)
    => LET result == outcome[2].result
           count == IF DictHas(result, "count")
                    THEN PyStr(DictGet(result, "count", Absent)) ELSE "0"
       IN  /\ OneText
           /\ IF IsDict(result) /\ DictHas(result, "saves")
              THEN output[1].text
                     = "Found " \o count \o " save game(s):" \o "\n\n" \o JsonDumps(result)
              ELSE /\ output[1].text = JsonDumps(result)
                   /\ ~Contains(output[1].text, "save game(s)")

C7_Witness ==
    /\ pc = "returned"
    /\ tool = "s1_list_saves"
    /\ AnsweredOk
    /\ IsDict(outcome[2].result)
    /\ DictHas(outcome[2].result, "saves")
    /\ DictGet(outcome[2].result, "saves", Absent)[1] = "list"
    /\ Len(DictGet(outcome[2].result, "saves", Absent)[2]) = 2
    /\ ~DictHas(outcome[2].result, "count")
    /\ StartsWith(output[1].text, "Found 0 save game(s):")

-----------------------------------------------------------------------------
(* C8 *)

C8_Notice == "(No log lines matched the filters)"
C8_Block == "Log Lines:"

\* The 'lines' entry of a result, the empty list when the result has none
C8_Lines(result) == DictGet(result, "lines", PyList(<<>>))

\* The entry the claim expects for one returned line: with the timestamp when
\* the line has a non-empty one, without it otherwise ('?' stands for a missing
\* number and nothing for a missing content; an entry that is no mapping has
\* none of the three)
C8_Entry(line) ==
    LET number == IF IsDict(line) /\ DictHas(line, "line_number")
                  THEN PyStr(DictGet(line, "line_number", Absent)) ELSE "?"
        content == IF IsDict(line) /\ DictHas(line, "content")
                   THEN PyStr(DictGet(line, "content", Absent)) ELSE ""
        stamped == /\ IsDict(line)
                   /\ DictHas(line, "timestamp")
                   /\ DictGet(line, "timestamp", Absent) # PyStrVal("")
    IN  IF stamped
        THEN "[Line " \o number \o "] [" \o PyStr(DictGet(line, "timestamp", Absent))
             \o "] " \o content
        ELSE "[Line " \o number \o "] " \o content

\* What the claim says of the text written for a result whose 'lines' is a
\* sized collection (or is absent)
C8_Rendering(text, result) ==
    LET lines == C8_Lines(result)
        entries == PyIter(lines)
    IN  IF PyLen(lines) = 0
        THEN /\ Contains(text, C8_Notice)
             /\ ~Contains(text, C8_Block)
             /\ Contains(text, "Lines returned: 0\n")
        ELSE /\ ~Contains(text, C8_Notice)
             /\ Contains(text, "Lines returned: " \o ToString(Len(entries)) \o "\n")
             /\ EndsWith(text, C8_Block \o "\n\n"
                               \o JoinStr([i \in 1..Len(entries) |-> C8_Entry(entries[i])], "\n"))

\* The results the amended claim covers: 'lines' is absent or a sized
\* collection whose members are all mappings, and 'filters_applied' is absent,
\* falsy or iterable
C8_WellFormed(result) ==
    /\ HasLen(C8_Lines(result))
    /\ \A i \in 1..Len(PyIter(C8_Lines(result))) : IsDict(PyIter(C8_Lines(result))[i])
    /\ LET filters_applied == DictGet(result, "filters_applied", PyList(<<>>))
       IN  Truthy(filters_applied) => IsIterable(filters_applied)

C8_Case ==
    pc = "returned" /\ tool = "s1_capture_logs" /\ AnsweredOk /\ IsDict(outcome[2].result)

\* C8 as stated: for capture_logs with an error-free structured result, empty
\* or absent 'lines' give the 'no lines matched' notice and no log-lines block;
\* non-empty 'lines' give no notice and one rendered entry per returned line,
\* in order, with the timestamp exactly when it is present and non-empty; the
\* 'Lines returned' figure is the number of rendered entries.
C8_AsStated ==
    (C8_Case /\ HasLen(C8_Lines(outcome[2].result)))
    => (OneText /\ C8_Rendering(output[1].text, outcome[2].result))

\* C8 amended: the same, for the results whose 'lines' is absent or holds only
\* mappings and whose 'filters_applied' is absent, falsy or iterable.
C8_LinesRendering ==
    (C8_Case /\ C8_WellFormed(outcome[2].result))
    => (OneText /\ C8_Rendering(output[1].text, outcome[2].result))

C8_Witness ==
    /\ C8_Case
    /\ C8_WellFormed(outcome[2].result)
    /\ LET lines == C8_Lines(outcome[2].result)
       IN  /\ lines[1] = "list"
           /\ Len(lines[2]) = 2
           /\ DictGet(lines[2][1], "timestamp", Absent) = PyStrVal("")
           /\ DictGet(lines[2][2], "timestamp", Absent) = PyStrVal("12:30:45")
    /\ EndsWith(output[1].text, "[Line 2] no stamp\n[Line 1] [12:30:45] [Mod] started")

-----------------------------------------------------------------------------
(* C9 *)

\* C9: an invocation invokes call_with_retry at most once; once the call has
\* answered with an error or raised, the handler has ended with that one call;
\* list_saves and capture_logs end with exactly one call, named 'list_saves'
\* and 'capture_logs', and the calls of load_save are named 'load_save'.
C9_OneCall ==
    /\ Len(calls) <= 1
    /\ (pc = "in_rpc" => Len(calls) = 1)
    /\ ((AnsweredError \/ CallRaised) => (Ended /\ Len(calls) = 1))
    /\ (Ended /\ tool = "s1_list_saves"
          => (Len(calls) = 1 /\ calls[1].method = "list_saves"))
    /\ (Ended /\ tool = "s1_capture_logs"
          => (Len(calls) = 1 /\ calls[1].method = "capture_logs"))
    /\ (tool = "s1_load_save" => \A i \in 1..Len(calls) : calls[i].method = "load_save")

C9_Witness ==
    /\ pc = "returned"
    /\ tool = "s1_load_save"
    /\ AnsweredError
    /\ Len(calls) = 1
    /\ calls[1].method = "load_save"

-----------------------------------------------------------------------------
(* C10 *)

\* The result with its 'success' entry set to s, or removed when s is Absent
C10_WithSuccess(result, s) ==
    DictOf(<< <<"success", s>> >> \o SelectSeq(result[2], LAMBDA kv : kv[1] # "success"))

\* C10: for load_save with an error-free mapping result, the text is the one
\* written for the same result with 'success' true, false or absent, so a
\* result with success=false carries the check mark as one with success=true.
C10_SuccessIgnored ==
    (pc = "returned" /\ tool = "s1_load_save" /\ AnsweredOk /\ IsDict(outcome[2].result))
    => /\ \A s \in {Absent, PyBool(TRUE), PyBool(FALSE)} :
             LoadSaveFormat(C10_WithSuccess(outcome[2].result, s)) = output[1].text
       /\ StartsWith(output[1].text, CheckMark \o " ")

C10_Witness ==
    /\ pc = "returned"
    /\ tool = "s1_load_save"
    /\ AnsweredOk
    /\ IsDict(outcome[2].result)
    /\ DictGet(outcome[2].result, "success", Absent) = PyBool(FALSE)
    /\ StartsWith(output[1].text, CheckMark \o " Loaded slot")

====
